---- MODULE Spec2Model ----
(***************************************************************************)
(* FontEntry::build (render/src/fontentry.rs): resolution of a PDF font's  *)
(* character codes to glyph ids.  One behaviour is one call of build; the  *)
(* descriptor (pdf_font) is fixed in Init, the answers of the glyph source *)
(* (font) and of the encoding library are drawn where build asks for them. *)
(* An Option<T> is a sequence of length at most one.                       *)
(***************************************************************************)
EXTENDS Integers, Sequences, FiniteSets, TLC

VARIABLES pc, pdf_font, font_encoding, to_unicode, is_cid, source_encoding,
          transcoder, forward, gid_for_codepoint, gid_for_unicode_codepoint,
          gid_for_name, cmap, encoding, widths, error

vars == <<pc, pdf_font, font_encoding, to_unicode, is_cid, source_encoding,
          transcoder, forward, gid_for_codepoint, gid_for_unicode_codepoint,
          gid_for_name, cmap, encoding, widths, error>>

None == << >>
Some(x) == <<x>>
Option(S) == {None} \cup {Some(x) : x \in S}

\* ---- bounds of the model ----
\* the byte loops run over 0 .. NumCodes-1 (0 .. 256 in the source)
NumCodes == 2
\* longest CID-to-glyph-index array
MaxLen == 2

\* ---- program constants ----
U16 == 65536
U8 == 256
PUA == 61440

Bytes == 0 .. (NumCodes - 1)
Glyphs == {1, 2}
\* character codes of a differences table (a Character Code is at most 65535):
\* one inside the byte loop's range, one at the top of the 16-bit code space
DiffCodes == {1, U16 - 1}
GlyphNames == {<<"A">>, <<"A", ".", "sc">>, <<"g1">>}

BaseEncodings == {"StandardEncoding", "SymbolEncoding", "WinAnsiEncoding",
                  "MacRomanEncoding", "MacExpertEncoding", "IdentityH",
                  "None", "Other"}
DiffTables == UNION {[D -> GlyphNames] : D \in SUBSET DiffCodes}
\* pdf_font.encoding(): Option<Encoding { base, differences }>
Encodings == Option([base : BaseEncodings, differences : DiffTables])
CidToGidMaps == Option(UNION {[1 .. n -> Glyphs] : n \in 0 .. MaxLen})
PdfFonts == [is_cid : BOOLEAN, encoding : Encodings,
             cid_to_gid_map : CidToGidMaps, name : Option({"F1"})]
\* font.encoding(): the model tells only whether the font names one
FontEncodings == Option({"AdobeSymbol"})

\* ---- values of TextEncoding ----
CID == [tag |-> "CID", map |-> << >>]
Cmap(m) == [tag |-> "Cmap", map |-> m]
Unset == [tag |-> "unset", map |-> << >>]

\* HashMap::insert
insert(m, k, v) == [x \in (DOMAIN m) \cup {k} |-> IF x = k THEN v ELSE m[x]]
\* Option::and_then on a table of options
and_then(o, f) == IF o = None THEN None ELSE f[o[1]]

\* std::char::from_u32: no surrogate, nothing above U+10FFFF
from_u32(n) ==
    IF n > 1114111 \/ (n >= 55296 /\ n <= 57343) THEN None ELSE Some(n)

Init ==
    /\ pc = "start"
    /\ pdf_font \in PdfFonts
    /\ font_encoding \in FontEncodings
    /\ to_unicode = None
    /\ is_cid = FALSE
    /\ source_encoding = None
    /\ transcoder = None
    /\ forward = << >>
    /\ gid_for_codepoint = << >>
    /\ gid_for_unicode_codepoint = << >>
    /\ gid_for_name = << >>
    /\ cmap = << >>
    /\ encoding = Unset
    /\ widths = "unset"
    /\ error = None

\* ---- answers the collaborators can give ----
\* ToUnicodeMap: code -> string; a string is a sequence of characters
ToUnicodeMaps == {(0 :> <<97>>), (0 :> << >>) @@ (1 :> <<98, 99>>)}
\* pdf_encoding Transcoder::translate, one table per obtainable transcoder
Transcoders == {[b \in Bytes |-> Some(b)],
                [b \in Bytes |-> Some((b + 1) % NumCodes)],
                [b \in Bytes |-> IF b = 0 THEN None ELSE Some(b)]}
\* pdf_encoding ForwardMap::get of the source encoding; each of the five source
\* encodings is table-backed, so forward_map().unwrap() of line 61 succeeds
ForwardMaps == {[b \in Bytes |-> Some(65 + b)],
                [b \in Bytes |-> IF b = 0 THEN None ELSE Some(65 + b)]}
\* Font::gid_for_codepoint / Font::gid_for_unicode_codepoint
GlyphTables == [Bytes -> Option(Glyphs)]

\* lines 43-53: the source encoding named by the base encoding
SourceEncodingOf(base_encoding) ==
    CASE base_encoding = Some("StandardEncoding") -> Some("AdobeStandard")
      [] base_encoding = Some("SymbolEncoding") -> Some("AdobeSymbol")
      [] base_encoding = Some("WinAnsiEncoding") -> Some("WinAnsiEncoding")
      [] base_encoding = Some("MacRomanEncoding") -> Some("MacRomanEncoding")
      [] base_encoding = Some("MacExpertEncoding") -> Some("AdobeExpert")
      [] OTHER -> None

\* line 28: encoding.as_ref().map(|e| &e.base)
BaseEncodingOf(e) == IF e = None THEN None ELSE Some(e[1].base)

\* line 34: first character of the code's ToUnicode string, if any
UnicodeOfCid(u, cid) ==
    IF u = None THEN None
    ELSE IF (cid % U16) \notin DOMAIN u[1] THEN None
    ELSE IF u[1][cid % U16] = << >> THEN None
    ELSE Some(Head(u[1][cid % U16]))

\* a slip of lines 33-36: the glyph taken from the index instead of the array
RECURSIVE CollectCidMapByIndex(_, _, _, _)
CollectCidMapByIndex(map, u, cid, m) ==
    IF cid >= Len(map) THEN m
    ELSE CollectCidMapByIndex(map, u, cid + 1,
            insert(m, cid % U16, [gid |-> cid, unicode |-> UnicodeOfCid(u, cid)]))

\* lines 33-36: collect() of (cid as u16, (GlyphId(gid), unicode)) over the array,
\* from index cid on, into m
RECURSIVE CollectCidMap(_, _, _, _)
CollectCidMap(map, u, cid, m) ==
    IF cid >= Len(map) THEN m
    ELSE CollectCidMap(map, u, cid + 1,
            insert(m, cid % U16, [gid |-> map[cid + 1], unicode |-> UnicodeOfCid(u, cid)]))

\* a slip of lines 62-67: the glyph looked up by the byte, not by its translation
RECURSIVE TranscodeLoopByByte(_, _, _, _, _)
TranscodeLoopByByte(t, f, g, b, m) ==
    IF b >= NumCodes THEN m
    ELSE LET gid == IF t[b] = None THEN None ELSE g[b]
         IN  TranscodeLoopByByte(t, f, g, b + 1,
                IF gid # None
                THEN insert(m, b % U16, [gid |-> gid[1], unicode |-> f[b % U8]])
                ELSE m)

\* lines 62-67: for b in 0 .. 256 with a transcoder t, forward map f, glyph table g
RECURSIVE TranscodeLoop(_, _, _, _, _)
TranscodeLoop(t, f, g, b, m) ==
    IF b >= NumCodes THEN m
    ELSE LET gid == and_then(t[b], g)
         IN  TranscodeLoop(t, f, g, b + 1,
                IF gid # None
                THEN insert(m, b % U16, [gid |-> gid[1], unicode |-> f[b % U8]])
                ELSE m)

\* lines 72-78: for b in 0 .. 256 with an encoder to Unicode and the glyph table g
RECURSIVE UnicodeLoop(_, _, _, _)
UnicodeLoop(t, g, b, m) ==
    IF b >= NumCodes THEN m
    ELSE LET unicode == t[b]
             gid == and_then(unicode, g)
         IN  UnicodeLoop(t, g, b + 1,
                IF gid # None
                THEN insert(m, b, [gid |-> gid[1],
                                   unicode |-> IF unicode = None THEN None
                                               ELSE from_u32(unicode[1])])
                ELSE m)

\* a slip of lines 85-89: the synthetic character without the code added
RECURSIVE FallbackLoopNoOffset(_, _, _)
FallbackLoopNoOffset(g, cp, m) ==
    IF cp >= NumCodes THEN m
    ELSE FallbackLoopNoOffset(g, cp + 1,
            IF g[cp] # None
            THEN insert(m, cp % U16, [gid |-> g[cp][1], unicode |-> from_u32(PUA)])
            ELSE m)

\* lines 85-89: for cp in 0 .. 256, assuming the font's own encoding
RECURSIVE FallbackLoop(_, _, _)
FallbackLoop(g, cp, m) ==
    IF cp >= NumCodes THEN m
    ELSE FallbackLoop(g, cp + 1,
            IF g[cp] # None
            THEN insert(m, cp % U16, [gid |-> g[cp][1], unicode |-> from_u32(PUA + cp)])
            ELSE m)

\* pdf_encoding::glyphname_to_unicode over the names of the model
glyphname_to_unicode(name) == IF name = <<"A">> THEN Some(<<65>>) ELSE None

\* str::find(".")
find_dot(name) ==
    LET I == {i \in 1 .. Len(name) : name[i] = "."}
    IN  IF I = {} THEN None ELSE Some(CHOOSE i \in I : \A j \in I : i <= j)

\* lines 97-99
UnicodeOfName(name) ==
    LET direct == glyphname_to_unicode(name)
        s == IF direct # None THEN direct
             ELSE IF find_dot(name) = None THEN None
             ELSE glyphname_to_unicode(SubSeq(name, 1, find_dot(name)[1] - 1))
    IN  IF s = None \/ s[1] = << >> THEN None ELSE Some(Head(s[1]))

\* a slip of lines 95-103: an entry already in the map is kept (or_insert)
OverlayEntryKeep(m, cp, name, names) ==
    IF names[name] # None /\ (cp % U16) \notin DOMAIN m
    THEN insert(m, cp % U16, [gid |-> names[name][1], unicode |-> UnicodeOfName(name)])
    ELSE m

\* lines 95-103: one entry (cp, name) of differences
OverlayEntry(m, cp, name, names) ==
    IF names[name] # None
    THEN insert(m, cp % U16, [gid |-> names[name][1], unicode |-> UnicodeOfName(name)])
    ELSE m

\* lines 93-104: the entries of differences in the order the HashMap yields them
RECURSIVE Overlay(_, _, _, _)
Overlay(m, differences, order, names) ==
    IF order = << >> THEN m
    ELSE Overlay(OverlayEntry(m, Head(order), differences[Head(order)], names),
                 differences, Tail(order), names)

\* the iteration orders of a HashMap with the keys S
Orders(S) == {o \in [1 .. Cardinality(S) -> S] : \A k \in S : \E i \in DOMAIN o : o[i] = k}

\* lines 108-112
Normalize(m) == IF DOMAIN m = {} THEN CID ELSE Cmap(m)

Differences == IF pdf_font.encoding = None THEN << >> ELSE pdf_font.encoding[1].differences
NamesUsed == {Differences[c] : c \in DOMAIN Differences}
base_encoding == BaseEncodingOf(pdf_font.encoding)
Simple == pdf_font.cid_to_gid_map = None /\ base_encoding # Some("IdentityH")

\* ---- the steps of build ----
\* lines 26-30: is_cid, encoding, to_unicode (which may fail)
ToUnicode ==
    /\ pc = "start"
    /\ is_cid' = pdf_font.is_cid
    /\ \E ok \in BOOLEAN :
         IF ok THEN pc' = "encoding" /\ error' = None
         ELSE pc' = "err" /\ error' = Some("to_unicode")
    /\ UNCHANGED <<widths, pdf_font, font_encoding, to_unicode, source_encoding, transcoder,
                   forward, gid_for_codepoint, gid_for_unicode_codepoint,
                   gid_for_name, cmap, encoding>>

\* a slip of lines 31-37: line 32 left out
CidToGidBranchKeepFlag ==
    /\ pc = "encoding"
    /\ pdf_font.cid_to_gid_map # None
    /\ \E u \in Option(ToUnicodeMaps) :
         /\ to_unicode' = u
         /\ encoding' = Cmap(CollectCidMap(pdf_font.cid_to_gid_map[1], u, 0, << >>))
    /\ pc' = "widths"
    /\ UNCHANGED <<widths, pdf_font, font_encoding, source_encoding, transcoder, forward,
                   gid_for_codepoint, gid_for_unicode_codepoint, gid_for_name, cmap,
                   error, is_cid>>

\* lines 31-37: the CID-to-glyph-index array; the content of to_unicode is read here
CidToGidBranch ==
    /\ pc = "encoding"
    /\ pdf_font.cid_to_gid_map # None
    /\ is_cid' = TRUE
    /\ \E u \in Option(ToUnicodeMaps) :
         /\ to_unicode' = u
         /\ encoding' = Cmap(CollectCidMap(pdf_font.cid_to_gid_map[1], u, 0, << >>))
    /\ pc' = "widths"
    /\ UNCHANGED <<widths, pdf_font, font_encoding, source_encoding, transcoder, forward,
                   gid_for_codepoint, gid_for_unicode_codepoint, gid_for_name, cmap,
                   error>>

\* a slip of lines 38-40: line 39 left out
IdentityHBranchKeepFlag ==
    /\ pc = "encoding"
    /\ pdf_font.cid_to_gid_map = None
    /\ base_encoding = Some("IdentityH")
    /\ encoding' = CID
    /\ pc' = "widths"
    /\ UNCHANGED <<widths, pdf_font, font_encoding, to_unicode, source_encoding, transcoder,
                   forward, gid_for_codepoint, gid_for_unicode_codepoint,
                   gid_for_name, cmap, error, is_cid>>

\* lines 38-40
IdentityHBranch ==
    /\ pc = "encoding"
    /\ pdf_font.cid_to_gid_map = None
    /\ base_encoding = Some("IdentityH")
    /\ is_cid' = TRUE
    /\ encoding' = CID
    /\ pc' = "widths"
    /\ UNCHANGED <<widths, pdf_font, font_encoding, to_unicode, source_encoding, transcoder,
                   forward, gid_for_codepoint, gid_for_unicode_codepoint,
                   gid_for_name, cmap, error>>

\* lines 42-69: source and font encoding both defined
TranscodeArm ==
    /\ pc = "encoding" /\ Simple
    /\ SourceEncodingOf(base_encoding) # None /\ font_encoding # None
    /\ source_encoding' = SourceEncodingOf(base_encoding)
    /\ \E t \in Option(Transcoders), g \in GlyphTables :
         /\ transcoder' = t
         /\ gid_for_codepoint' = g
         /\ IF t # None
            THEN \E f \in ForwardMaps :
                   /\ forward' = f
                   /\ cmap' = TranscodeLoop(t[1], f, g, 0, << >>)
            ELSE forward' = << >> /\ cmap' = << >>
    /\ pc' = "differences"
    /\ UNCHANGED <<widths, pdf_font, font_encoding, to_unicode, is_cid,
                   gid_for_unicode_codepoint, gid_for_name, encoding, error>>

\* lines 42-57, 70-80: source encoding defined, the font reports none
UnicodeArm ==
    /\ pc = "encoding" /\ Simple
    /\ SourceEncodingOf(base_encoding) # None /\ font_encoding = None
    /\ source_encoding' = SourceEncodingOf(base_encoding)
    /\ \E t \in Option(Transcoders), g \in GlyphTables :
         /\ transcoder' = t
         /\ IF t # None
            THEN /\ gid_for_unicode_codepoint' = g
                 /\ gid_for_codepoint' = << >>
                 /\ cmap' = UnicodeLoop(t[1], g, 0, << >>)
            ELSE /\ gid_for_codepoint' = g
                 /\ gid_for_unicode_codepoint' = << >>
                 /\ cmap' = << >>
    /\ pc' = "differences"
    /\ UNCHANGED <<widths, pdf_font, font_encoding, to_unicode, is_cid, forward,
                   gid_for_name, encoding, error>>

\* lines 42-57, 81-90: no source encoding
FallbackArm ==
    /\ pc = "encoding" /\ Simple
    /\ SourceEncodingOf(base_encoding) = None
    /\ source_encoding' = None
    /\ \E g \in GlyphTables :
         /\ gid_for_codepoint' = g
         /\ cmap' = FallbackLoop(g, 0, << >>)
    /\ pc' = "differences"
    /\ UNCHANGED <<widths, pdf_font, font_encoding, to_unicode, is_cid, transcoder, forward,
                   gid_for_unicode_codepoint, gid_for_name, encoding, error>>

\* lines 92-113: the differences overlay and the empty-map check
DifferencesOverlay ==
    /\ pc = "differences"
    /\ \E names \in [NamesUsed -> Option(Glyphs)], order \in Orders(DOMAIN Differences) :
         /\ gid_for_name' = names
         /\ encoding' = Normalize(Overlay(cmap, Differences, order, names))
    /\ pc' = "widths"
    /\ UNCHANGED <<widths, pdf_font, font_encoding, to_unicode, is_cid, source_encoding,
                   transcoder, forward, gid_for_codepoint, gid_for_unicode_codepoint,
                   cmap, error>>

\* a slip of lines 115-125: the name defaulted instead of required
FinishIgnoringName ==
    /\ pc = "widths"
    /\ \E w \in {"err", "absent", "table"} :
         /\ widths' = w
         /\ IF w = "err" THEN pc' = "err" /\ error' = Some("widths")
            ELSE pc' = "done" /\ error' = None
    /\ UNCHANGED <<pdf_font, font_encoding, to_unicode, is_cid, source_encoding,
                   transcoder, forward, gid_for_codepoint, gid_for_unicode_codepoint,
                   gid_for_name, cmap, encoding>>

\* a slip of lines 115-125: the error of widths dropped (.ok() instead of ?)
FinishIgnoringWidths ==
    /\ pc = "widths"
    /\ \E w \in {"err", "absent", "table"} :
         /\ widths' = w
         /\ IF pdf_font.name = None
            THEN pc' = "err" /\ error' = Some("font has no name")
            ELSE pc' = "done" /\ error' = None
    /\ UNCHANGED <<pdf_font, font_encoding, to_unicode, is_cid, source_encoding,
                   transcoder, forward, gid_for_codepoint, gid_for_unicode_codepoint,
                   gid_for_name, cmap, encoding>>

\* lines 115-125: widths (which may fail), name, the FontEntry
Finish ==
    /\ pc = "widths"
    /\ \E w \in {"err", "absent", "table"} :
         /\ widths' = w
         /\ IF w = "err" THEN pc' = "err" /\ error' = Some("widths")
            ELSE IF pdf_font.name = None
                 THEN pc' = "err" /\ error' = Some("font has no name")
                 ELSE pc' = "done" /\ error' = None
    /\ UNCHANGED <<pdf_font, font_encoding, to_unicode, is_cid, source_encoding,
                   transcoder, forward, gid_for_codepoint, gid_for_unicode_codepoint,
                   gid_for_name, cmap, encoding>>

Next ==
    \/ ToUnicode
    \/ CidToGidBranch
    \/ IdentityHBranch
    \/ TranscodeArm
    \/ UnicodeArm
    \/ FallbackArm
    \/ DifferencesOverlay
    \/ Finish

Spec == Init /\ [][Next]_vars

\* ---- the properties of build ----
Done == pc = "done"
HasArray == pdf_font.cid_to_gid_map # None
IsCmap == encoding.tag = "Cmap"
\* the keys of the resulting Explicit Map (none under CID Passthrough)
MapKeys == IF IsCmap THEN DOMAIN encoding.map ELSE {}
\* the differences entries whose glyph name the glyph source resolves
Resolved == {c \in DOMAIN Differences : gid_for_name[Differences[c]] # None}
\* a resolved differences entry lands on byte b
Overridden(b) == \E c \in Resolved : c % U16 = b

\* C1: a successful build never returns an Explicit Map with zero entries,
\* whichever branch built it (the CID array with zero entries included).
C1_NoEmptyExplicitMap == Done => (IsCmap => DOMAIN encoding.map # {})

\* C2: source encoding defined but no transcoder for the chosen pair: every byte
\* the glyph source resolves by codepoint, and differences do not override, is
\* mapped as by the identity fallback, b -> (g, 0xF000 + b).
C2_FallbackWithoutTranscoder ==
    (Done /\ Simple /\ source_encoding # None /\ transcoder = None) =>
        \A b \in Bytes :
            (gid_for_codepoint[b] # None /\ ~Overridden(b)) =>
                /\ b \in MapKeys
                /\ encoding.map[b] = [gid |-> gid_for_codepoint[b][1],
                                      unicode |-> Some(PUA + b)]

\* C3: in the simple-encoding branch every differences entry whose glyph name
\* resolves to g ends with glyph g at its code, whatever the transcoder or
\* fallback path put there and whatever the other entries are.
C3_DifferencesOverride ==
    (Done /\ Simple) =>
        \A c \in Resolved :
            /\ c \in MapKeys
            /\ encoding.map[c].gid = gid_for_name[Differences[c]][1]

C3_Witness ==
    /\ Done /\ Simple
    /\ Cardinality(Resolved) = 2
    /\ \E c \in Resolved :
          c \in DOMAIN cmap /\ cmap[c].gid # gid_for_name[Differences[c]][1]

\* C4: with a CID-to-glyph-index array the result is CID and its Explicit Map is
\* the array verbatim: map[i].glyph = array[i] for every index i, and no other
\* key, whatever the base encoding, the native encoding and differences are.
C4_CidArrayVerbatim ==
    (Done /\ HasArray) =>
        LET array == pdf_font.cid_to_gid_map[1]
        IN  /\ is_cid
            /\ IsCmap
            /\ DOMAIN encoding.map = 0 .. (Len(array) - 1)
            /\ \A i \in 0 .. (Len(array) - 1) : encoding.map[i].gid = array[i + 1]

C4_Witness ==
    /\ Done /\ HasArray
    /\ Len(pdf_font.cid_to_gid_map[1]) = 2
    /\ pdf_font.cid_to_gid_map[1][1] # pdf_font.cid_to_gid_map[1][2]
    /\ base_encoding = Some("IdentityH")
    /\ ~pdf_font.is_cid
    /\ DOMAIN Differences # {}
    /\ font_encoding # None

\* C5 as stated: a descriptor without a name makes build fail with the
\* "font has no name" error, whatever the accessors answer.
C5_AlwaysNoNameError ==
    (pdf_font.name = None /\ pc \in {"done", "err"}) =>
        (pc = "err" /\ error = Some("font has no name"))

\* C5 amended: a descriptor without a name never yields a FontEntry, and the
\* error is "font has no name" whenever to_unicode and widths were retrieved.
C5_NoNameIsFatal ==
    pdf_font.name = None =>
        /\ pc # "done"
        /\ (pc = "err" /\ widths \in {"absent", "table"}) =>
               error = Some("font has no name")

C5_Witness ==
    /\ pdf_font.name = None
    /\ pc = "err"
    /\ error = Some("font has no name")
    /\ Simple

\* C6: build fails exactly on a failed to_unicode, a failed widths or an absent
\* name; every other run goes on to return a FontEntry.
C6_FailsOnlyOnFatal ==
    /\ pc = "err" =>
          \/ error = Some("to_unicode") /\ encoding = Unset
          \/ error = Some("widths") /\ widths = "err"
          \/ error = Some("font has no name") /\ pdf_font.name = None
    /\ Done => (pdf_font.name # None /\ widths \in {"absent", "table"} /\ error = None)
    /\ pc \notin {"done", "err"} => ENABLED Next

C6_Witness ==
    /\ Done /\ Simple
    /\ base_encoding = Some("Other")
    /\ font_encoding # None
    /\ DOMAIN Differences # {}
    /\ Resolved = {}

\* C7: IdentityH without a CID array gives CID Passthrough with the CID flag set,
\* whatever isCidKeyed(), differences and the native encoding are.
C7_IdentityHPassthrough ==
    (Done /\ ~HasArray /\ base_encoding = Some("IdentityH")) =>
        (encoding = CID /\ is_cid)

C7_Witness ==
    /\ Done /\ ~HasArray /\ base_encoding = Some("IdentityH")
    /\ ~pdf_font.is_cid
    /\ DOMAIN Differences # {}
    /\ font_encoding # None

\* C8: no source encoding (identity fallback): a byte the glyph source resolves
\* by codepoint and differences do not override maps to (g, 0xF000 + b); a byte
\* it does not resolve has no entry unless differences add one.
C8_FallbackPua ==
    (Done /\ Simple /\ SourceEncodingOf(base_encoding) = None) =>
        \A b \in Bytes :
            ~Overridden(b) =>
                IF gid_for_codepoint[b] # None
                THEN /\ b \in MapKeys
                     /\ encoding.map[b] = [gid |-> gid_for_codepoint[b][1],
                                           unicode |-> Some(PUA + b)]
                ELSE b \notin MapKeys

C8_Witness ==
    /\ Done /\ Simple /\ SourceEncodingOf(base_encoding) = None
    /\ Resolved # {}
    /\ \E b \in Bytes : b > 0 /\ ~Overridden(b) /\ gid_for_codepoint[b] # None
    /\ \E b \in Bytes : ~Overridden(b) /\ gid_for_codepoint[b] = None

\* C9: source and destination defined with a transcoder: a byte differences do
\* not override is in the map exactly when it translates to a codepoint the
\* glyph source has a glyph for, with that glyph and the source encoding's own
\* character for the byte.
C9_KnownPairTranscoding ==
    (Done /\ Simple /\ source_encoding # None /\ font_encoding # None
          /\ transcoder # None) =>
        \A b \in Bytes :
            ~Overridden(b) =>
                LET cp == transcoder[1][b]
                    g == IF cp = None THEN None ELSE gid_for_codepoint[cp[1]]
                IN  /\ (b \in MapKeys) <=> (g # None)
                    /\ (b \in MapKeys) =>
                          encoding.map[b] = [gid |-> g[1], unicode |-> forward[b]]

C9_Witness ==
    /\ Done /\ Simple /\ source_encoding # None /\ font_encoding # None
    /\ transcoder # None
    /\ \E b \in Bytes :
          /\ ~Overridden(b) /\ b \in MapKeys
          /\ transcoder[1][b] # Some(b)
          /\ gid_for_codepoint[b] # gid_for_codepoint[transcoder[1][b][1]]
    /\ \E b \in Bytes : ~Overridden(b) /\ b \notin MapKeys

\* C10: the CID flag of a FontEntry is set exactly when the descriptor is
\* CID-keyed, has a CID array or declares IdentityH; the simple-encoding branch
\* leaves it as isCidKeyed() says, also when the empty map degrades to CID.
C10_CidFlag ==
    pc \in {"widths", "done"} =>
        /\ is_cid <=> (pdf_font.is_cid \/ HasArray \/ base_encoding = Some("IdentityH"))
        /\ Simple => (is_cid = pdf_font.is_cid)

C10_Witness == Done /\ Simple /\ encoding = CID /\ ~is_cid
====
